---------------------------- MODULE Spec2Model ----------------------------
(***************************************************************************)
(* A model of the vibe terminal host (src-tauri): the PTY session of       *)
(* pty.rs with its reader and writer threads and its three channels, the   *)
(* shell-integration directory of zdotdir.rs, and the command handlers of  *)
(* main.rs that own the session through AppState.                          *)
(***************************************************************************)
EXTENDS Integers, Sequences, FiniteSets, TLC

(***************************************************************************)
(* Bounds of the model.                                                    *)
(***************************************************************************)
MaxSessions == 2      \* sessions start_session may create in one run
MaxReads    == 2      \* chunks the child shells produce in one run
MaxWrites   == 2      \* send_input calls in one run
MaxFaults   == 1      \* I/O and persistence faults the environment injects
MaxCleanups == 3      \* calls of ZdotdirSetup::cleanup on one directory
MaxHandlers == 2      \* command handlers running at the same time

SIDs == 1..MaxSessions
NoSession == 0

(***************************************************************************)
(* Bytes.  A byte of the stream is a token: the lead-in and lead-out       *)
(* control sequences, a marker kind, the field separator, a secret, or an  *)
(* ordinary character.                                                     *)
(***************************************************************************)
LEAD_IN  == "ESC]"
LEAD_OUT == "BEL"
SEP      == ";"
Kinds    == {"CMD_START", "CMD_END"}
Nonces   == {"n1", "n2"}
Digits   == {"0", "1"}
InputBytes == {"a", "b"}

\* Sentinel exit code of a CMD_END payload that is no integer.
SentinelExit == -1
\* Longest unterminated marker the parser keeps buffered.
MaxSpan == 8

(***************************************************************************)
(* Boundary Protocol Parser (OscParser).                                   *)
(***************************************************************************)
CommandText(text) == [kind |-> "CommandText", text |-> text, code |-> 0]
CommandEnd(code)  == [kind |-> "CommandEnd", text |-> <<>>, code |-> code]

DigitValue(d) == IF d = "1" THEN 1 ELSE 0

RECURSIVE DecimalValue(_)
DecimalValue(ds) ==
    IF ds = <<>> THEN 0
    ELSE 10 * DecimalValue(SubSeq(ds, 1, Len(ds) - 1)) + DigitValue(ds[Len(ds)])

AllDigits(ds) == ds # <<>> /\ \A i \in 1..Len(ds) : ds[i] \in Digits

ParseExit(payload) ==
    IF AllDigits(payload) THEN DecimalValue(payload)
    ELSE IF payload # <<>> /\ payload[1] = "-" /\ AllDigits(Tail(payload))
         THEN 0 - DecimalValue(Tail(payload))
         ELSE SentinelExit

\* A faulty variant: the embedded secret is not compared.
DecodeAnySecret(secret, body) ==
    IF /\ Len(body) >= 4
       /\ body[1] \in Kinds
       /\ body[2] = SEP
       /\ body[4] = SEP
    THEN LET payload == SubSeq(body, 5, Len(body))
         IN  IF body[1] = "CMD_START"
             THEN << [kind |-> "CommandText", text |-> payload, code |-> 0] >>
             ELSE << [kind |-> "CommandEnd", text |-> <<>>, code |-> 0] >>
    ELSE <<>>
\* The events of one complete marker body (the bytes between lead-in and
\* lead-out): none unless it is KIND ; SECRET ; PAYLOAD with the parser's secret.
Decode(secret, body) ==
    IF /\ Len(body) >= 4
       /\ body[1] \in Kinds
       /\ body[2] = SEP
       /\ body[3] = secret
       /\ body[4] = SEP
    THEN LET payload == SubSeq(body, 5, Len(body))
         IN  IF body[1] = "CMD_START" THEN <<CommandText(payload)>>
             ELSE <<CommandEnd(ParseExit(payload))>>
    ELSE <<>>

\* A faulty variant: no bound on the pending marker.
FeedByteUnbounded(secret, pending, b) ==
    IF b = LEAD_IN
    THEN [pending |-> <<b>>, events |-> <<>>]
    ELSE IF pending = <<>>
    THEN [pending |-> <<>>, events |-> <<>>]
    ELSE IF b = LEAD_OUT
    THEN [pending |-> <<>>, events |-> Decode(secret, Tail(pending))]
    ELSE [pending |-> Append(pending, b), events |-> <<>>]
\* One byte: the parser's pending marker (empty when outside a marker) and the
\* events the byte completes.  A lead-in starts a marker wherever it comes; a
\* marker that has reached MaxSpan bytes without its lead-out is given up and
\* scanning goes on as outside a marker.
FeedByte(secret, pending, b) ==
    IF b = LEAD_IN
    THEN [pending |-> <<b>>, events |-> <<>>]
    ELSE IF pending = <<>>
    THEN [pending |-> <<>>, events |-> <<>>]
    ELSE IF b = LEAD_OUT
    THEN [pending |-> <<>>, events |-> Decode(secret, Tail(pending))]
    ELSE IF Len(pending) >= MaxSpan
    THEN [pending |-> <<>>, events |-> <<>>]
    ELSE [pending |-> Append(pending, b), events |-> <<>>]

RECURSIVE Feed(_, _, _)
Feed(secret, pending, chunk) ==
    IF chunk = <<>> THEN [pending |-> pending, events |-> <<>>]
    ELSE LET one  == FeedByte(secret, pending, Head(chunk))
             rest == Feed(secret, one.pending, Tail(chunk))
         IN  [pending |-> rest.pending, events |-> one.events \o rest.events]

\* OscParser::feed on a parser p: the parser afterwards and the events.
\* A faulty variant: a marker begun in one call is forgotten at its end.
feed_forgetful(p, chunk) ==
    [parser |-> [p EXCEPT !.pending = <<>>],
     events |-> Feed(p.secret, p.pending, chunk).events]
feed(p, chunk) ==
    [parser |-> [p EXCEPT !.pending = Feed(p.secret, p.pending, chunk).pending],
     events |-> Feed(p.secret, p.pending, chunk).events]

\* Streams a parser is tried on: one or two of these pieces, one after the
\* other.  Markers of both kinds with either secret, with a payload that is
\* no integer and with a negative one, a marker that never ends (longer than
\* MaxSpan) and one that is cut short, a lead-out on its own, plain output.
Junk == [i \in 1..(MaxSpan + 1) |-> "j"]
Pieces ==
    { <<LEAD_IN, "CMD_START", SEP, n, SEP, "l", LEAD_OUT>> : n \in Nonces }
    \cup { <<LEAD_IN, "CMD_END", SEP, n, SEP, "1", "0", LEAD_OUT>> : n \in Nonces }
    \cup { <<LEAD_IN, "CMD_END", SEP, "n1", SEP, "-", "1", LEAD_OUT>>,
           <<LEAD_IN, "CMD_END", SEP, "n1", SEP, "x", LEAD_OUT>>,
           <<LEAD_IN, "CMD_START", SEP, "n1", LEAD_OUT>>,
           <<LEAD_IN>> \o Junk,
           <<LEAD_IN, "CMD_START", SEP>>,
           <<LEAD_OUT, "o">> }
Streams == Pieces \cup { a \o b : a, b \in Pieces }

(***************************************************************************)
(* State.                                                                  *)
(***************************************************************************)
VARIABLES
    pty,                \* AppState.pty: the held session, or NoSession
    current_command_id, \* AppState.current_command_id: index in dbCommands, or 0
    dbSessions,         \* sessions table: "none", "open" or "ended" per id
    dbEvents,           \* events table: per session and kind, in insertion order
    dbCommands,         \* commands table, in insertion order
    status,             \* per PtySession: "unborn", "live", "dropped", "failed"
    nonce,              \* PtySession.nonce
    size,               \* geometry of the session's pseudo-terminal
    dirExists,          \* file system: the session's ZDOTDIR directory exists
    zshrc,              \* file system: the secret rendered into .zshrc
    cleanupCalls,       \* results of the calls of ZdotdirSetup::cleanup, per session
    reader,             \* reader thread: pc, chunk in hand, events to send
    parser,             \* the reader's OscParser: secret, pending marker
    writer,             \* writer thread: pc, item in hand
    outQ,               \* output channel
    evQ,                \* osc_events channel
    inQ,                \* writer channel
    inRx,               \* writer_rx, the receiver of the writer channel, exists
    ptyBuf,             \* child output not yet read from the master side
    ptyLog,             \* operations performed on the master's write half
    childAlive,         \* the spawned shell is running
    readsHist,          \* non-empty reads of the reader thread, in order
    evProduced,         \* events returned by feed, in order
    outTaken,           \* chunks returned by read_output, in order
    evTaken,            \* events returned by read_osc_events, in order
    enqHist,            \* items write_input enqueued, in order
    writeErrs,          \* send_input calls that returned the error of write_input
    nReads, nWrites, nFaults,
    benchParser,        \* a parser on its own: secret, pending marker
    benchStream,        \* the byte stream it is given
    benchFed,           \* how many bytes of the stream it has been fed
    benchEvents,        \* the events its feed calls returned, in order
    benchCalls,         \* how many feed calls it has had
    lockOwner,          \* AppState's mutexes: the handler thread holding each, or 0
    call,               \* per handler thread: the command it runs, what is left of it
    ptySome,            \* AppState.pty is Some, as the running handlers see it
    proc,               \* per handler thread in process_osc_events: the session
                        \* id and the events it drained, the event it is at
    drained,            \* per handler thread: what its calls drained, in order
    applied             \* per handler thread: its persistence calls, in order

vars == <<pty, current_command_id, dbSessions, dbEvents, dbCommands, status,
          nonce, size, dirExists, zshrc, cleanupCalls, reader, parser, writer,
          outQ, evQ, inQ, inRx, ptyBuf, ptyLog, childAlive, readsHist,
          evProduced, outTaken, evTaken, enqHist, writeErrs, nReads, nWrites,
          nFaults, benchParser, benchStream, benchFed, benchEvents,
          benchCalls, lockOwner, call, ptySome, proc, drained, applied>>

appVars  == <<pty, current_command_id>>
dbVars   == <<dbSessions, dbEvents, dbCommands>>
fsVars   == <<dirExists, zshrc, cleanupCalls>>
sessVars == <<status, nonce, size>>
readVars == <<reader, parser, outQ, evQ, readsHist, evProduced>>
writeVars == <<writer, inQ, inRx, ptyLog, enqHist, writeErrs>>
takeVars == <<outTaken, evTaken>>
envVars  == <<ptyBuf, childAlive, nReads>>
\* What belongs to no session: the parts checked on their own.
benchVars == <<benchParser, benchStream, benchFed, benchEvents, benchCalls>>
lockVars == <<lockOwner, call, ptySome>>
procVars == <<proc, drained, applied>>
harnessVars == <<benchVars, lockVars, procVars>>

\* The handler threads, the mutexes of AppState, a thread that runs no command.
Threads == 1..MaxHandlers
Locks == {"db", "pty", "current_command_id"}
IdleCall == [fn |-> "idle", planned |-> FALSE, todo |-> <<>>]
LocksIdle ==
    /\ lockOwner = [l \in Locks |-> 0]
    /\ call = [t \in Threads |-> IdleCall]
    /\ ptySome = FALSE
\* A handler thread that is not inside the loop of process_osc_events.
IdleProc == [sid |-> 0, events |-> <<>>, next |-> 0]
ProcsIdle ==
    /\ proc = [t \in Threads |-> IdleProc]
    /\ drained = [t \in Threads |-> <<>>]
    /\ applied = [t \in Threads |-> <<>>]

None == "none"

\* Output the child shells produce, as the reader's reads cut it into chunks.
Chunks ==
    { <<"o">>,
      <<LEAD_IN, "CMD_START", SEP, "n1", SEP, "l", LEAD_OUT,
        LEAD_IN, "CMD_END", SEP, "n1", SEP>>,
      <<"1", LEAD_OUT, LEAD_IN, "CMD_START", SEP, "n1", SEP, "l", LEAD_OUT,
        LEAD_IN, "CMD_END", SEP, "n2", SEP, "0", LEAD_OUT>> }

\* Terminal geometries the frontend asks for, as (cols, rows).
Sizes == { <<80, 24>>, <<120, 40>> }
\* The geometry the frontend starts a session with.
StartSizes == { <<80, 24>> }
\* PtySize { rows, cols, pixel_width: 0, pixel_height: 0 }
\* A faulty variant: the two arguments in the wrong fields.
PtySizeSwapped(cols, rows) == [rows |-> cols, cols |-> rows]
PtySize(cols, rows) == [rows |-> rows, cols |-> cols]
NoSize == [rows |-> 0, cols |-> 0]

IdleReader == [pc |-> "none", data |-> <<>>, events |-> <<>>]
IdleWriter == [pc |-> "none", data |-> None]

\* Everything but the file system at the start of the program.
AtStart ==
    /\ pty = NoSession
    /\ current_command_id = 0
    /\ dbSessions = [s \in SIDs |-> "none"]
    /\ dbEvents = [s \in SIDs |-> [user_in |-> <<>>, pty_out |-> <<>>]]
    /\ dbCommands = <<>>
    /\ status = [s \in SIDs |-> "unborn"]
    /\ nonce = [s \in SIDs |-> None]
    /\ size = [s \in SIDs |-> NoSize]
    /\ zshrc = [s \in SIDs |-> None]
    /\ cleanupCalls = [s \in SIDs |-> <<>>]
    /\ reader = [s \in SIDs |-> IdleReader]
    /\ parser = [s \in SIDs |-> [secret |-> None, pending |-> <<>>]]
    /\ writer = [s \in SIDs |-> IdleWriter]
    /\ outQ = [s \in SIDs |-> <<>>]
    /\ evQ = [s \in SIDs |-> <<>>]
    /\ inQ = [s \in SIDs |-> <<>>]
    /\ inRx = [s \in SIDs |-> FALSE]
    /\ ptyBuf = [s \in SIDs |-> <<>>]
    /\ ptyLog = [s \in SIDs |-> <<>>]
    /\ childAlive = [s \in SIDs |-> FALSE]
    /\ readsHist = [s \in SIDs |-> <<>>]
    /\ evProduced = [s \in SIDs |-> <<>>]
    /\ outTaken = [s \in SIDs |-> <<>>]
    /\ evTaken = [s \in SIDs |-> <<>>]
    /\ enqHist = [s \in SIDs |-> <<>>]
    /\ writeErrs = [s \in SIDs |-> 0]
    /\ nReads = 0
    /\ nWrites = 0
    /\ nFaults = 0

\* No parser on its own.
HarnessIdle ==
    /\ benchParser = [secret |-> None, pending |-> <<>>]
    /\ benchStream = <<>>
    /\ benchFed = 0
    /\ benchEvents = <<>>
    /\ benchCalls = 0
    /\ LocksIdle
    /\ ProcsIdle

Init ==
    /\ AtStart
    /\ dirExists = [s \in SIDs |-> FALSE]
    /\ HarnessIdle

\* A call the environment makes fail uses up one of the run's faults.
Cost(ok) == IF ok THEN 0 ELSE 1

(***************************************************************************)
(* ZdotdirSetup (zdotdir.rs) and PtySession::new (pty.rs).                 *)
(***************************************************************************)
\* The places where PtySession::new can return, in program order: the error
\* returns of openpty, of ZdotdirSetup::create (HOME, create_dir_all, the
\* template read, the .zshrc write), of spawn_command, of try_clone_reader and
\* of take_writer, and the Ok at the end.
NewStages == <<"openpty", "home", "mkdir", "template", "write", "spawn",
               "clone_reader", "take_writer", "ok">>
NewOutcomes == { NewStages[i] : i \in 1..Len(NewStages) }
StageOf(o) == CHOOSE i \in 1..Len(NewStages) : NewStages[i] = o
\* new() returning at `o` has executed the step that can fail at `stage`.
Passed(o, stage) == StageOf(o) > StageOf(stage)

\* The artifact directory of a session: $HOME/.vibecodings/zshrc/<session_id>.
\* A faulty variant: one directory for all sessions.
zdotdir_path_shared(id) == << "HOME", ".vibecodings/zshrc" >>
zdotdir_path(id) == << "HOME", ".vibecodings/zshrc", id >>
\* The file system is kept per session: what is at the session's path.  An
\* operation on the path of s acts on every session with that path.
SamePath(s, x) == zdotdir_path(s) = zdotdir_path(x)

\* ZdotdirSetup::cleanup: the directory afterwards.  remove_dir_all is called
\* only when the directory exists, and may fail.
cleanup(exists, removeOk) == IF exists THEN ~removeOk ELSE FALSE
\* What cleanup returns: the error of remove_dir_all, or Ok.
\* A faulty variant: remove_dir_all without the check that the directory exists.
cleanup_result_unguarded(exists, removeOk) ==
    IF exists /\ removeOk THEN "ok" ELSE "err"
cleanup_result(exists, removeOk) == IF exists /\ ~removeOk THEN "err" ELSE "ok"

\* The artifact directory when new() returns at `o`: create_dir_all has made
\* it, and no error return removes it.
NewDirExists(o) == Passed(o, "mkdir")
\* The .zshrc template: text with the three placeholders.
Template == << "id=", "{{SESSION_ID}}", "nonce=", "{{NONCE}}",
               "source", "{{VIBE_INTEGRATION_PATH}}" >>
\* str::replace, token for token.
Replace(text, from, to) ==
    [i \in 1..Len(text) |-> IF text[i] = from THEN to ELSE text[i]]
\* The rendered start-up file.
\* A faulty variant: the nonce placeholder is left as it is.
RenderWithoutNonce(template, id, n) ==
    Replace(Replace(template, "{{SESSION_ID}}", id),
            "{{VIBE_INTEGRATION_PATH}}", "path")
Render(template, id, n) ==
    Replace(Replace(Replace(template, "{{SESSION_ID}}", id), "{{NONCE}}", n),
            "{{VIBE_INTEGRATION_PATH}}", "path")
\* What a shell that reads the file finds where the template has the nonce.
NonceIn(content) ==
    content[CHOOSE i \in 1..Len(Template) : Template[i] = "{{NONCE}}"]
\* The secret in the rendered .zshrc when new() returns at `o`.
NewZshrc(o, n) ==
    IF Passed(o, "write") THEN NonceIn(Render(Template, "id", n)) ELSE None
\* fs::create_dir_all(&zdotdir_path) and fs::write(&zshrc_path, ..) of
\* session s, on the file system.
CreateDir(dir, s, o) ==
    IF NewDirExists(o)
    THEN [x \in SIDs |-> IF SamePath(s, x) THEN TRUE ELSE dir[x]]
    ELSE dir
WriteZshrc(files, s, o, n) ==
    IF NewZshrc(o, n) # None
    THEN [x \in SIDs |-> IF SamePath(s, x) THEN NewZshrc(o, n) ELSE files[x]]
    ELSE files
\* The shell runs once spawn_command has succeeded; new() never stops it.
NewChildSpawned(o) == Passed(o, "spawn")
\* The reader thread is spawned before take_writer is tried.
NewReader(o) ==
    IF Passed(o, "clone_reader") THEN [IdleReader EXCEPT !.pc = "read"]
    ELSE IdleReader
\* The writer thread is spawned last.
NewWriter(o) ==
    IF Passed(o, "take_writer") THEN [IdleWriter EXCEPT !.pc = "recv"]
    ELSE IdleWriter
\* The geometry openpty was called with.
NewSize(o, g) == IF Passed(o, "openpty") THEN PtySize(g[1], g[2]) ELSE NoSize
NewParser(o, n) ==
    [secret |-> IF Passed(o, "spawn") THEN n ELSE None, pending |-> <<>>]

(***************************************************************************)
(* impl Drop for PtySession, followed by the drop of its fields.           *)
(***************************************************************************)
\* The session stops existing: its receivers and its sender go with it.
\* A faulty variant: the session replaced or taken is not dropped.
DropStatusKeeps(st, s) == st
DropStatus(st, s) == IF s = NoSession THEN st ELSE [st EXCEPT ![s] = "dropped"]
\* A faulty variant: drop() without the call of cleanup.
DropDirNoCleanup(dir, s, removeOk) == dir
DropDir(dir, s, removeOk) ==
    IF s = NoSession THEN dir
    ELSE [x \in SIDs |-> IF SamePath(s, x) THEN cleanup(dir[s], removeOk)
                         ELSE dir[x]]
\* drop() calls cleanup once; an error is printed and goes no further.
DropCleanupCalls(calls, dir, s, removeOk) ==
    IF s = NoSession THEN calls
    ELSE [calls EXCEPT ![s] = Append(@, cleanup_result(dir[s], removeOk))]
\* output_rx and osc_events_rx go with the session: what is queued is discarded.
DropQueue(q, s) == IF s = NoSession THEN q ELSE [q EXCEPT ![s] = <<>>]

NextSid ==
    CHOOSE s \in SIDs :
        status[s] = "unborn" /\ \A x \in 1..(s - 1) : status[x] # "unborn"

(***************************************************************************)
(* Command handlers (main.rs).                                             *)
(***************************************************************************)
StartSession(o, n, dbOk, removeOk) ==
    /\ UNCHANGED harnessVars
    /\ \E s \in SIDs : status[s] = "unborn"
    /\ nFaults + Cost(dbOk) + Cost(removeOk) <= MaxFaults
    /\ nFaults' = nFaults + Cost(dbOk) + Cost(removeOk)
    /\ IF ~dbOk
       THEN \* create_session failed: nothing was created
            /\ removeOk /\ o = "ok" /\ n = "n1"
            /\ UNCHANGED <<appVars, dbVars, fsVars, sessVars, readVars,
                           writeVars, takeVars, envVars, nWrites>>
       ELSE LET s == NextSid IN
            /\ dbSessions' = [dbSessions EXCEPT ![s] = "open"]
            /\ nonce' = [nonce EXCEPT ![s] = IF o = "ok" THEN n ELSE None]
            /\ \E g \in StartSizes : size' = [size EXCEPT ![s] = NewSize(o, g)]
            /\ zshrc' = WriteZshrc(zshrc, s, o, n)
            /\ childAlive' = [childAlive EXCEPT ![s] = NewChildSpawned(o)]
            /\ reader' = [reader EXCEPT ![s] = NewReader(o)]
            /\ writer' = [writer EXCEPT ![s] = NewWriter(o)]
            /\ inRx' = [inRx EXCEPT ![s] = Passed(o, "take_writer")]
            /\ parser' = [parser EXCEPT ![s] = NewParser(o, n)]
            /\ IF o = "ok"
               THEN \* *pty = Some(pty_session) drops the session held before
                    /\ pty' = s
                    /\ status' = [DropStatus(status, pty) EXCEPT ![s] = "live"]
                    /\ dirExists' = DropDir(CreateDir(dirExists, s, o), pty, removeOk)
                    /\ cleanupCalls' = DropCleanupCalls(cleanupCalls,
                                           CreateDir(dirExists, s, o), pty, removeOk)
                    /\ outQ' = DropQueue(outQ, pty)
                    /\ evQ' = DropQueue(evQ, pty)
                    /\ (~removeOk => pty # NoSession /\ dirExists[pty])
               ELSE /\ removeOk
                    /\ status' = [status EXCEPT ![s] = "failed"]
                    /\ dirExists' = CreateDir(dirExists, s, o)
                    /\ UNCHANGED <<pty, cleanupCalls, outQ, evQ>>
            /\ UNCHANGED <<current_command_id, dbEvents, dbCommands, inQ,
                           ptyLog, enqHist, writeErrs, readsHist, evProduced,
                           takeVars, ptyBuf, nReads, nWrites>>

\* Option::take on AppState.pty: what is left in the Option.
\* A faulty variant: the session stays in AppState.
take_keeps(held) == held
take(held) == NoSession

EndSession(dbOk, removeOk) ==
    /\ UNCHANGED harnessVars
    /\ pty # NoSession
    /\ nFaults + Cost(dbOk) + Cost(removeOk) <= MaxFaults
    /\ nFaults' = nFaults + Cost(dbOk) + Cost(removeOk)
    /\ (~removeOk => dirExists[pty])
    \* pty.take(); the session is dropped when the handler returns, with Ok
    \* or with the error of db.end_session
    /\ pty' = take(pty)
    /\ dbSessions' = IF dbOk THEN [dbSessions EXCEPT ![pty] = "ended"]
                     ELSE dbSessions
    /\ status' = DropStatus(status, pty)
    /\ dirExists' = DropDir(dirExists, pty, removeOk)
    /\ cleanupCalls' = DropCleanupCalls(cleanupCalls, dirExists, pty, removeOk)
    /\ outQ' = DropQueue(outQ, pty)
    /\ evQ' = DropQueue(evQ, pty)
    /\ UNCHANGED <<current_command_id, dbEvents, dbCommands, nonce, size,
                   zshrc, reader, parser, readsHist, evProduced,
                   writeVars, takeVars, envVars, nWrites>>

\* end_session with no session held: Ok(()), nothing else.
EndSessionIdle ==
    /\ pty = NoSession
    /\ UNCHANGED vars

\* PtySession::write_input: the send succeeds as long as the receiver, which
\* the writer thread owns, has not been dropped.
\* A faulty variant: a send that cannot fail.
write_input_never_fails(s) == TRUE
write_input_ok(s) == inRx[s]

\* Database::add_event, when the insert succeeds.
add_event(events, s, kind, data) ==
    [events EXCEPT ![s][kind] = Append(@, data)]

\* Input that is not UTF-8.
InvalidBytes == {"xFF"}
\* String::from_utf8_lossy: what is not UTF-8 becomes U+FFFD.
from_utf8_lossy(d) == IF d \in InvalidBytes THEN "U+FFFD" ELSE d

\* send_input gets to its add_event call: the `?` after write_input returns
\* on an error.
\* A faulty variant: the input is logged whether or not it was enqueued.
reaches_add_event_always(enqueued) == TRUE
reaches_add_event(enqueued) == enqueued

\* What send_input returns.
send_input_ret(dbOk) ==
    IF pty = NoSession THEN "ok"
    ELSE IF ~write_input_ok(pty) THEN "err_write"
    ELSE IF ~dbOk THEN "err_log"
    ELSE "ok"

SendInput(d, dbOk) ==
    /\ UNCHANGED harnessVars
    /\ nWrites < MaxWrites
    /\ nWrites' = nWrites + 1
    /\ IF pty = NoSession
       THEN /\ dbOk
            /\ UNCHANGED <<dbVars, writeVars, nFaults>>
       ELSE IF ~write_input_ok(pty)
       THEN /\ dbOk
            /\ writeErrs' = [writeErrs EXCEPT ![pty] = @ + 1]
            /\ dbEvents' = IF reaches_add_event(FALSE)
                           THEN add_event(dbEvents, pty, "user_in", from_utf8_lossy(d))
                           ELSE dbEvents
            /\ UNCHANGED <<dbSessions, dbCommands, writer, inQ, inRx, ptyLog,
                           enqHist, nFaults>>
       ELSE /\ nFaults + Cost(dbOk) <= MaxFaults
            /\ nFaults' = nFaults + Cost(dbOk)
            /\ inQ' = [inQ EXCEPT ![pty] = Append(@, d)]
            /\ enqHist' = [enqHist EXCEPT ![pty] = Append(@, d)]
            /\ dbEvents' = IF dbOk /\ reaches_add_event(TRUE)
                           THEN add_event(dbEvents, pty, "user_in", from_utf8_lossy(d))
                           ELSE dbEvents
            /\ UNCHANGED <<dbSessions, dbCommands, writer, inRx, ptyLog, writeErrs>>
    /\ UNCHANGED <<appVars, fsVars, sessVars, readVars, takeVars, envVars>>

\* PtySession::read_output: try_recv().ok(), an Option as a sequence of
\* length at most one.
\* A faulty variant: the newest chunk instead of the oldest.
read_output_newest(q) == IF q = <<>> THEN <<>> ELSE <<q[Len(q)]>>
read_output(q) == IF q = <<>> THEN <<>> ELSE <<Head(q)>>

ReadOutput(dbOk) ==
    /\ UNCHANGED harnessVars
    /\ pty # NoSession
    /\ read_output(outQ[pty]) # <<>>
    /\ nFaults + Cost(dbOk) <= MaxFaults
    /\ nFaults' = nFaults + Cost(dbOk)
    /\ LET got == read_output(outQ[pty]) IN
         /\ outQ' = [outQ EXCEPT ![pty] = Tail(@)]
         /\ outTaken' = [outTaken EXCEPT ![pty] = @ \o got]
         \* a failed insert is ignored
         /\ dbEvents' = IF dbOk THEN add_event(dbEvents, pty, "pty_out", got[1])
                        ELSE dbEvents
    /\ UNCHANGED <<appVars, dbSessions, dbCommands, fsVars, sessVars, reader,
                   parser, evQ, readsHist, evProduced, evTaken, writeVars,
                   envVars, nWrites>>

\* read_output with no session held, or with nothing queued: Ok(None).
ReadOutputNone ==
    /\ IF pty = NoSession THEN TRUE ELSE read_output(outQ[pty]) = <<>>
    /\ UNCHANGED vars

\* PtySession::read_osc_events: everything queued, in queue order.
\* A faulty variant: one try_recv instead of the loop.
read_osc_events_once(q) == IF q = <<>> THEN <<>> ELSE <<Head(q)>>
read_osc_events(q) == q

\* Database::create_command.
create_command(cmds, s, text) ==
    Append(cmds, [session |-> s, input |-> text, ended |-> FALSE, exit_code |-> 0])

\* Database::end_command: the most recent command of the session that has not
\* ended gets its end and its exit code; no such command, no change.
OpenCommands(cmds, s) ==
    { i \in 1..Len(cmds) : cmds[i].session = s /\ ~cmds[i].ended }
MaxOf(S) == CHOOSE i \in S : \A j \in S : j <= i
\* A faulty variant: an UPDATE of every unfinished command of the session.
end_command_all(cmds, s, code) ==
    [i \in 1..Len(cmds) |->
        IF i \in OpenCommands(cmds, s)
        THEN [cmds[i] EXCEPT !.ended = TRUE, !.exit_code = code]
        ELSE cmds[i]]
end_command(cmds, s, code) ==
    IF OpenCommands(cmds, s) = {} THEN cmds
    ELSE [cmds EXCEPT ![MaxOf(OpenCommands(cmds, s))] =
              [@ EXCEPT !.ended = TRUE, !.exit_code = code]]

\* The loop of process_osc_events over the drained events; the persistence
\* call for event number failAt fails (0: none does).
RECURSIVE ApplyEvents(_, _, _, _, _, _)
ApplyEvents(cmds, cur, s, events, i, failAt) ==
    IF i > Len(events) THEN [cmds |-> cmds, cur |-> cur]
    ELSE LET e == events[i] IN
         IF e.kind = "CommandText"
         THEN IF i = failAt
              THEN ApplyEvents(cmds, cur, s, events, i + 1, failAt)
              ELSE ApplyEvents(create_command(cmds, s, e.text), Len(cmds) + 1,
                               s, events, i + 1, failAt)
         ELSE IF i = failAt
              THEN ApplyEvents(cmds, 0, s, events, i + 1, failAt)
              ELSE ApplyEvents(end_command(cmds, s, e.code), 0,
                               s, events, i + 1, failAt)

ProcessOscEvents(failAt) ==
    /\ UNCHANGED harnessVars
    /\ pty # NoSession
    /\ nFaults + Cost(failAt = 0) <= MaxFaults
    /\ nFaults' = nFaults + Cost(failAt = 0)
    /\ LET events == read_osc_events(evQ[pty])
           done == ApplyEvents(dbCommands, current_command_id, pty,
                               events, 1, failAt)
       IN  /\ failAt <= Len(events)
           /\ evQ' = [evQ EXCEPT ![pty] = SubSeq(@, Len(events) + 1, Len(@))]
           /\ evTaken' = [evTaken EXCEPT ![pty] = @ \o events]
           /\ dbCommands' = done.cmds
           /\ current_command_id' = done.cur
    /\ UNCHANGED <<pty, dbSessions, dbEvents, fsVars, sessVars, reader, parser,
                   outQ, readsHist, evProduced, outTaken, writeVars, envVars,
                   nWrites>>

\* PtySession::resize: the geometry of the pseudo-terminal afterwards.
resize(cur, cols, rows, ok) == IF ok THEN PtySize(cols, rows) ELSE cur

\* resize_pty: with no session held, Ok(()) and nothing else.
ResizePty(g, ok) ==
    /\ UNCHANGED harnessVars
    /\ nFaults + Cost(ok) <= MaxFaults
    /\ nFaults' = nFaults + Cost(ok)
    /\ IF pty = NoSession
       THEN ok /\ UNCHANGED size
       ELSE size' = [size EXCEPT ![pty] = resize(@, g[1], g[2], ok)]
    /\ UNCHANGED <<appVars, dbVars, fsVars, status, nonce, readVars, writeVars,
                   takeVars, envVars, nWrites>>

(***************************************************************************)
(* The reader thread (pty.rs, the closure spawned in PtySession::new).     *)
(***************************************************************************)
\* A send on output_tx or osc_events_tx succeeds while the session, which
\* owns the receivers, exists.
ReceiverAlive(s) == status[s] = "live"

\* After feed: the for loop over the events, if there are any, then the
\* send of the raw output.
\* A faulty variant: the raw output is sent and the events are forgotten.
AfterReadPcNoEvents(events) == "sendOut"
AfterReadPc(events) == IF events = <<>> THEN "sendOut" ELSE "sendEv"

\* osc_parser.feed(&data): the reader's one parser, with what it has pending.
\* A faulty variant: every chunk is fed to a parser with nothing pending.
ReaderFeedFresh(p, data) == Feed(p.secret, <<>>, data)
ReaderFeed(p, data) == Feed(p.secret, p.pending, data)

\* Ok(n), n > 0: the chunk is fed to the parser.
ReaderRead(s) ==
    /\ UNCHANGED harnessVars
    /\ reader[s].pc = "read"
    /\ ptyBuf[s] # <<>>
    /\ LET data == Head(ptyBuf[s])
           fed  == ReaderFeed(parser[s], data)
       IN  /\ ptyBuf' = [ptyBuf EXCEPT ![s] = Tail(@)]
           /\ parser' = [parser EXCEPT ![s].pending = fed.pending]
           /\ readsHist' = [readsHist EXCEPT ![s] = Append(@, data)]
           /\ evProduced' = [evProduced EXCEPT ![s] = @ \o fed.events]
           /\ reader' = [reader EXCEPT ![s] =
                  [pc |-> AfterReadPc(fed.events), data |-> data,
                   events |-> fed.events]]
    /\ UNCHANGED <<appVars, dbVars, fsVars, sessVars, outQ, evQ, writeVars,
                   takeVars, childAlive, nReads, nWrites, nFaults>>

\* The reader after one iteration of `for event in events`: a failed send
\* leaves the for loop only.
ReaderAfterEvent(r, sent) ==
    IF sent /\ Len(r.events) > 1
    THEN [r EXCEPT !.events = Tail(@)]
    ELSE [r EXCEPT !.events = <<>>, !.pc = "sendOut"]

ReaderSendEvent(s) ==
    /\ UNCHANGED harnessVars
    /\ reader[s].pc = "sendEv"
    /\ evQ' = IF ReceiverAlive(s)
              THEN [evQ EXCEPT ![s] = Append(@, Head(reader[s].events))]
              ELSE evQ
    /\ reader' = [reader EXCEPT ![s] = ReaderAfterEvent(@, ReceiverAlive(s))]
    /\ UNCHANGED <<appVars, dbVars, fsVars, sessVars, parser, outQ, readsHist,
                   evProduced, writeVars, takeVars, envVars, nWrites, nFaults>>

\* The reader after output_tx.send(data): the next read, or the end of the
\* thread when the channel is closed.
ReaderAfterOutput(r, sent) ==
    [pc |-> IF sent THEN "read" ELSE "done", data |-> <<>>, events |-> <<>>]

ReaderSendOutput(s) ==
    /\ UNCHANGED harnessVars
    /\ reader[s].pc = "sendOut"
    /\ outQ' = IF ReceiverAlive(s)
               THEN [outQ EXCEPT ![s] = Append(@, reader[s].data)]
               ELSE outQ
    /\ reader' = [reader EXCEPT ![s] = ReaderAfterOutput(@, ReceiverAlive(s))]
    /\ UNCHANGED <<appVars, dbVars, fsVars, sessVars, parser, evQ, readsHist,
                   evProduced, writeVars, takeVars, envVars, nWrites, nFaults>>

\* The reader after Ok(0) or Err(e): break.
\* A faulty variant: the loop goes on after Ok(0) or Err(e).
ReaderAfterEndContinue(r) == r
ReaderAfterEnd(r) == [r EXCEPT !.pc = "done"]

\* The thread's end drops output_tx and osc_events_tx: what the queue of a
\* channel holds once its sender is gone.
\* A faulty variant: what is queued goes with the sender.
disconnect_discards(q) == <<>>
disconnect(q) == q

\* Ok(0): nothing is left to read and the child has exited.
ReaderEof(s) ==
    /\ UNCHANGED harnessVars
    /\ reader[s].pc = "read"
    /\ ptyBuf[s] = <<>>
    /\ ~childAlive[s]
    /\ reader' = [reader EXCEPT ![s] = ReaderAfterEnd(@)]
    /\ outQ' = [outQ EXCEPT ![s] = disconnect(@)]
    /\ evQ' = [evQ EXCEPT ![s] = disconnect(@)]
    /\ UNCHANGED <<appVars, dbVars, fsVars, sessVars, parser,
                   readsHist, evProduced, writeVars, takeVars, envVars,
                   nWrites, nFaults>>

\* Err(e): the read fails.
ReaderError(s) ==
    /\ UNCHANGED harnessVars
    /\ reader[s].pc = "read"
    /\ nFaults < MaxFaults
    /\ nFaults' = nFaults + 1
    /\ reader' = [reader EXCEPT ![s] = ReaderAfterEnd(@)]
    /\ outQ' = [outQ EXCEPT ![s] = disconnect(@)]
    /\ evQ' = [evQ EXCEPT ![s] = disconnect(@)]
    /\ UNCHANGED <<appVars, dbVars, fsVars, sessVars, parser,
                   readsHist, evProduced, writeVars, takeVars, envVars, nWrites>>

(***************************************************************************)
(* The writer thread (pty.rs, the closure spawned in PtySession::new).     *)
(***************************************************************************)
\* writer_rx.recv(): the next item; Err once the queue is empty and the
\* session, which owns the sender, is gone.  The thread's end drops writer_rx.
\* writer_tx, the only sender of the writer channel, is a field of the session.
\* A faulty variant: the input queue is closed when the reader thread ends.
SenderAliveWithReader(s) == status[s] = "live" /\ reader[s].pc # "done"
SenderAlive(s) == status[s] = "live"

\* A faulty variant: the newest item first.
RecvNewest(q) == q[Len(q)]
\* writer_rx.recv() on a queue that holds something: the oldest item.
RecvItem(q) == Head(q)

\* writer_rx.recv() returns Err: the sender is gone and nothing is queued.
\* A faulty variant: Err as soon as the sender is gone.
recv_closed_early(q, alive) == ~alive
recv_closed(q, alive) == q = <<>> /\ ~alive

WriterRecv(s) ==
    /\ UNCHANGED harnessVars
    /\ writer[s].pc = "recv"
    /\ IF recv_closed(inQ[s], SenderAlive(s))
       THEN /\ writer' = [writer EXCEPT ![s] = [pc |-> "done", data |-> None]]
            /\ inRx' = [inRx EXCEPT ![s] = FALSE]
            /\ inQ' = [inQ EXCEPT ![s] = <<>>]
       ELSE /\ inQ[s] # <<>>
            /\ writer' = [writer EXCEPT ![s] = [pc |-> "write", data |-> RecvItem(inQ[s])]]
            /\ inQ' = [inQ EXCEPT ![s] = Tail(@)]
            /\ UNCHANGED inRx
    /\ UNCHANGED <<appVars, dbVars, fsVars, sessVars, readVars, ptyLog, enqHist,
                   writeErrs, takeVars, envVars, nWrites, nFaults>>

\* What one pass of the loop body does to the master's write half:
\* write_all, then flush, whose result is ignored; a failed write_all only.
WriteOps(data, ok) ==
    IF ok THEN << [op |-> "write", data |-> data], [op |-> "flush", data |-> data] >>
    ELSE << [op |-> "write_err", data |-> data] >>

\* The writer after the loop body: the next recv, or break on a failed write.
WriterAfterWrite(w, ok) ==
    [pc |-> IF ok THEN "recv" ELSE "done", data |-> None]

\* w.write_all(&data) and w.flush().  A break ends the thread, and writer_rx
\* goes with it: what is still queued is discarded.
WriterWrite(s, ok) ==
    /\ UNCHANGED harnessVars
    /\ writer[s].pc = "write"
    /\ nFaults + Cost(ok) <= MaxFaults
    /\ nFaults' = nFaults + Cost(ok)
    /\ ptyLog' = [ptyLog EXCEPT ![s] = @ \o WriteOps(writer[s].data, ok)]
    /\ writer' = [writer EXCEPT ![s] = WriterAfterWrite(@, ok)]
    /\ inRx' = [inRx EXCEPT ![s] = WriterAfterWrite(writer[s], ok).pc # "done"]
    /\ inQ' = IF WriterAfterWrite(writer[s], ok).pc # "done" THEN inQ
              ELSE [inQ EXCEPT ![s] = <<>>]
    /\ UNCHANGED <<appVars, dbVars, fsVars, sessVars, readVars, enqHist,
                   writeErrs, takeVars, envVars, nWrites>>

(***************************************************************************)
(* The child shell.                                                        *)
(***************************************************************************)
\* The shell writes to its terminal; the bytes wait for the reader's read.
ChildOutput(s, c) ==
    /\ UNCHANGED harnessVars
    /\ childAlive[s]
    /\ reader[s].pc = "read"
    /\ ptyBuf[s] = <<>>
    /\ nReads < MaxReads
    /\ nReads' = nReads + 1
    /\ ptyBuf' = [ptyBuf EXCEPT ![s] = <<c>>]
    /\ UNCHANGED <<appVars, dbVars, fsVars, sessVars, readVars, writeVars,
                   takeVars, childAlive, nWrites, nFaults>>

ChildExit(s) ==
    /\ UNCHANGED harnessVars
    /\ childAlive[s]
    /\ childAlive' = [childAlive EXCEPT ![s] = FALSE]
    /\ UNCHANGED <<appVars, dbVars, fsVars, sessVars, readVars, writeVars,
                   takeVars, ptyBuf, nReads, nWrites, nFaults>>

Lifecycle ==
    \/ \E o \in NewOutcomes, n \in Nonces, dbOk, removeOk \in BOOLEAN :
          StartSession(o, n, dbOk, removeOk)
    \/ \E dbOk, removeOk \in BOOLEAN : EndSession(dbOk, removeOk)
    \/ EndSessionIdle

\* The child may exit and a read may fail whether or not the shell ever writes.
ReaderEnd(s) ==
    \/ ReaderEof(s)
    \/ ReaderError(s)
    \/ ChildExit(s)

OutputPath(s) ==
    \/ \E c \in Chunks : ChildOutput(s, c)
    \/ ReaderRead(s)
    \/ ReaderSendEvent(s)
    \/ ReaderSendOutput(s)

Consumer ==
    \/ \E dbOk \in BOOLEAN : ReadOutput(dbOk)
    \/ ReadOutputNone
    \/ \E failAt \in 0..MaxReads : ProcessOscEvents(failAt)

InputPath ==
    \/ \E d \in InputBytes, dbOk \in BOOLEAN : SendInput(d, dbOk)
    \/ \E s \in SIDs : WriterRecv(s)
    \/ \E s \in SIDs, ok \in BOOLEAN : WriterWrite(s, ok)

ReaderStep(s) ==
    \/ ReaderRead(s)
    \/ ReaderSendEvent(s)
    \/ ReaderSendOutput(s)
    \/ ReaderEof(s)

WriterStep(s) ==
    \/ WriterRecv(s)
    \/ WriterWrite(s, TRUE)

Next ==
    \/ Lifecycle
    \/ \E s \in SIDs : ReaderEnd(s)
    \/ \E s \in SIDs : OutputPath(s)
    \/ Consumer
    \/ InputPath
    \/ \E g \in Sizes, ok \in BOOLEAN : ResizePty(g, ok)

Spec == Init /\ [][Next]_vars

\* Sessions come and go, shells exit, reads fail, the writer sees its queue
\* closed; no shell writes, no input.
LifeNext ==
    \/ Lifecycle
    \/ \E s \in SIDs : ReaderEnd(s)
    \/ \E s \in SIDs : WriterRecv(s)
LifeSpec == Init /\ [][LifeNext]_vars

\* The same, with the threads scheduled: a thread that can return from its
\* read or its recv eventually does.  Nothing makes a shell exit, a read fail
\* or a handler run.
FairLifeSpec ==
    /\ LifeSpec
    /\ \A s \in SIDs : WF_vars(ReaderEof(s)) /\ WF_vars(WriterRecv(s))

\* The output path: child, reader thread, output and event queues, consumer.
OutputNext ==
    \/ Lifecycle
    \/ \E s \in SIDs : ReaderEnd(s)
    \/ \E s \in SIDs : OutputPath(s)
    \/ Consumer
OutputSpec == Init /\ [][OutputNext]_vars

\* The input path: send_input, writer queue, writer thread.
InputNext ==
    \/ Lifecycle
    \/ InputPath
InputSpec == Init /\ [][InputNext]_vars

\* The threads are scheduled: a step a thread can take is eventually taken.
\* Nothing makes the child shell write or exit, and nothing makes a handler run.
FairSpec ==
    /\ Spec
    /\ \A s \in SIDs : WF_vars(ReaderStep(s)) /\ WF_vars(WriterStep(s))

\* ZdotdirSetup::cleanup called on the directory of s, by whoever holds the
\* ZdotdirSetup; remove_dir_all can fail only when it is called.
CleanupCall(s, removeOk) ==
    /\ UNCHANGED harnessVars
    /\ Len(cleanupCalls[s]) < MaxCleanups
    /\ ~removeOk => dirExists[s]
    /\ dirExists' = DropDir(dirExists, s, removeOk)
    /\ cleanupCalls' = DropCleanupCalls(cleanupCalls, dirExists, s, removeOk)
    /\ UNCHANGED <<appVars, dbVars, zshrc, sessVars, readVars, writeVars,
                   takeVars, envVars, nWrites, nFaults>>

\* cleanup on its own: any of the directories may exist at the start, and
\* cleanup is called on them again and again.
CleanupInit ==
    /\ AtStart
    /\ dirExists \in [SIDs -> BOOLEAN]
    /\ HarnessIdle
CleanupNext == \E s \in SIDs, removeOk \in BOOLEAN : CleanupCall(s, removeOk)
CleanupSpec == CleanupInit /\ [][CleanupNext]_vars

\* One feed call on the parser on its own: the next k bytes of the stream.
FeedPiece(k) ==
    /\ benchFed + k <= Len(benchStream)
    /\ LET fed == feed(benchParser,
                       SubSeq(benchStream, benchFed + 1, benchFed + k))
       IN  /\ benchParser' = fed.parser
           /\ benchEvents' = benchEvents \o fed.events
    /\ benchFed' = benchFed + k
    /\ benchCalls' = benchCalls + 1
    /\ UNCHANGED <<appVars, dbVars, fsVars, sessVars, readVars, writeVars,
                   takeVars, envVars, nWrites, nFaults, benchStream, lockVars, procVars>>

\* The parser on its own: a parser made with one of the secrets is fed one of
\* the streams, cut into chunks in any way.
ParserInit ==
    /\ AtStart
    /\ dirExists = [s \in SIDs |-> FALSE]
    /\ benchParser \in { [secret |-> n, pending |-> <<>>] : n \in Nonces }
    /\ benchStream \in Streams
    /\ benchFed = 0
    /\ benchEvents = <<>>
    /\ benchCalls = 0
    /\ LocksIdle
    /\ ProcsIdle
ParserNext == \E k \in 1..(2 * MaxSpan + 2) : FeedPiece(k)
ParserSpec == ParserInit /\ [][ParserNext]_vars

\* send_input with any input, UTF-8 or not, on sessions that come and go and
\* whose writer thread may fail.
SendNext ==
    \/ \E n \in Nonces : StartSession("ok", n, TRUE, TRUE)
    \/ EndSession(TRUE, TRUE)
    \/ \E d \in InputBytes \cup InvalidBytes, dbOk \in BOOLEAN : SendInput(d, dbOk)
    \/ \E s \in SIDs : WriterRecv(s)
    \/ \E s \in SIDs, ok \in BOOLEAN : WriterWrite(s, ok)
SendSpec == Init /\ [][SendNext]_vars

\* A session whose reader thread comes to its end while the consumer reads:
\* no end_session, no persistence call fails.
DrainNext ==
    \/ \E n \in Nonces : StartSession("ok", n, TRUE, TRUE)
    \/ \E s \in SIDs : ReaderEnd(s)
    \/ \E s \in SIDs : OutputPath(s)
    \/ ReadOutput(TRUE)
    \/ ProcessOscEvents(0)
DrainSpec == Init /\ [][DrainNext]_vars

\* Shell output that carries whole markers with the secret n1: two commands
\* started one after the other, and two commands ended.
CmdChunks ==
    { <<LEAD_IN, "CMD_START", SEP, "n1", SEP, "l", LEAD_OUT,
        LEAD_IN, "CMD_START", SEP, "n1", SEP, "m", LEAD_OUT>>,
      <<LEAD_IN, "CMD_END", SEP, "n1", SEP, "1", LEAD_OUT,
        LEAD_IN, "CMD_END", SEP, "n1", SEP, "0", LEAD_OUT>> }
\* The most events one call of process_osc_events can find queued.
MaxBatch == 2 * MaxReads
\* The command records: sessions whose shells start and end commands, the
\* reader that turns the markers into events, and process_osc_events.
CommandNext ==
    \/ \E n \in Nonces : StartSession("ok", n, TRUE, TRUE)
    \/ \E s \in SIDs, c \in CmdChunks : ChildOutput(s, c)
    \/ \E s \in SIDs : ReaderRead(s)
    \/ \E s \in SIDs : ReaderSendEvent(s)
    \/ \E s \in SIDs : ReaderSendOutput(s)
    \/ \E failAt \in 0..MaxBatch : ProcessOscEvents(failAt)
CommandSpec == Init /\ [][CommandNext]_vars

(***************************************************************************)
(* process_osc_events step by step, as it runs next to other handlers: the *)
(* drain under the pty lock, then one step per event under the db lock.    *)
(***************************************************************************)
\* The session id the persistence calls of the loop are made with.
\* A faulty variant: the id of the session held when the event is applied.
ApplySidHeld(t) == pty
ApplySid(t) == proc[t].sid

\* The loop after the event at `next`: the next event, or the return.
AfterApply(p, ok) ==
    IF p.next < Len(p.events) THEN [p EXCEPT !.next = @ + 1] ELSE IdleProc

\* state.pty.lock(), read_osc_events(), session_id.clone(), drop(pty).
ProcessDrain(t) ==
    /\ proc[t] = IdleProc
    /\ pty # NoSession
    /\ LET events == read_osc_events(evQ[pty]) IN
         /\ evQ' = [evQ EXCEPT ![pty] = SubSeq(@, Len(events) + 1, Len(@))]
         /\ evTaken' = [evTaken EXCEPT ![pty] = @ \o events]
         /\ proc' = [proc EXCEPT ![t] =
                        IF events = <<>> THEN IdleProc
                        ELSE [sid |-> pty, events |-> events, next |-> 1]]
         /\ drained' = [drained EXCEPT ![t] =
                           @ \o [i \in 1..Len(events) |->
                                    [sid |-> pty, event |-> events[i]]]]
    /\ UNCHANGED <<appVars, dbVars, fsVars, sessVars, reader, parser, outQ,
                   readsHist, evProduced, outTaken, writeVars, envVars, nWrites,
                   nFaults, benchVars, lockVars, applied>>

\* One pass of `for event in events`: state.db.lock(), create_command or
\* end_command, state.current_command_id.lock().
ProcessApply(t, ok) ==
    /\ proc[t] # IdleProc
    /\ nFaults + Cost(ok) <= MaxFaults
    /\ nFaults' = nFaults + Cost(ok)
    /\ LET e == proc[t].events[proc[t].next]
           done == ApplyEvents(dbCommands, current_command_id, ApplySid(t),
                               <<e>>, 1, IF ok THEN 0 ELSE 1)
       IN  /\ dbCommands' = done.cmds
           /\ current_command_id' = done.cur
           /\ applied' = [applied EXCEPT ![t] =
                             Append(@, [sid |-> ApplySid(t), event |-> e, ok |-> ok])]
    /\ proc' = [proc EXCEPT ![t] = AfterApply(@, ok)]
    /\ UNCHANGED <<pty, dbSessions, dbEvents, fsVars, sessVars, readVars,
                   writeVars, takeVars, envVars, nWrites, benchVars, lockVars,
                   drained>>

\* process_osc_events on the handler threads, next to start_session and
\* end_session, with shells that start and end commands.
ProcessNext ==
    \/ \E n \in Nonces : StartSession("ok", n, TRUE, TRUE)
    \/ EndSession(TRUE, TRUE)
    \/ \E s \in SIDs, c \in CmdChunks : ChildOutput(s, c)
    \/ \E s \in SIDs : ReaderRead(s)
    \/ \E s \in SIDs : ReaderSendEvent(s)
    \/ \E s \in SIDs : ReaderSendOutput(s)
    \/ \E t \in Threads : ProcessDrain(t)
    \/ \E t \in Threads, ok \in BOOLEAN : ProcessApply(t, ok)
ProcessSpec == Init /\ [][ProcessNext]_vars

(***************************************************************************)
(* The mutexes of AppState as the command handlers lock them (main.rs).    *)
(* A guard is released where it goes out of scope: at the end of the       *)
(* function or block, in reverse order of declaration, or at drop().       *)
(***************************************************************************)
Acq(l) == [op |-> "acq", lock |-> l]
Rel(l) == [op |-> "rel", lock |-> l]
Commands == {"start_session", "send_input", "read_output",
             "process_osc_events", "resize_pty", "end_session"}
\* The first lock a command takes.
FirstLock(fn) == IF fn = "start_session" THEN "db" ELSE "pty"
\* What a command does with the locks after its first lock(), by the branch
\* it takes; `some` is whether AppState.pty holds a session.
Plans(fn, some) ==
    IF fn = "start_session"
    THEN { \* create_session or PtySession::new fails: return holding db only
           << Rel("db") >>,
           \* state.pty.lock() with db held, *pty = Some(..), return
           << Acq("pty"), Rel("pty"), Rel("db") >> }
    ELSE IF fn = "resize_pty" \/ ~some
    THEN { << Rel("pty") >> }
    ELSE IF fn \in {"send_input", "read_output"}
    THEN { \* write_input fails, or nothing is queued
           << Rel("pty") >>,
           \* state.db.lock() with pty held
           << Acq("db"), Rel("db"), Rel("pty") >> }
    ELSE IF fn = "end_session"
    THEN { << Acq("db"), Rel("db"), Rel("pty") >> }
    ELSE { \* process_osc_events: drop(pty), then per event db, and
           \* current_command_id with db held
           << Rel("pty") >>,
           << Rel("pty"), Acq("db"), Rel("db") >>,
           << Rel("pty"), Acq("db"), Acq("current_command_id"),
              Rel("current_command_id"), Rel("db") >> }

\* The frontend invokes a command; a free handler thread takes it.
Invoke(t, fn) ==
    /\ call[t] = IdleCall
    /\ call' = [call EXCEPT ![t] =
                   [fn |-> fn, planned |-> FALSE, todo |-> << Acq(FirstLock(fn)) >>]]
    /\ UNCHANGED <<appVars, dbVars, fsVars, sessVars, readVars, writeVars,
                   takeVars, envVars, nWrites, nFaults, benchVars, lockOwner,
                   ptySome, procVars>>

\* What is left of the command after a step, or the end of the command.
Continue(c, todo) == IF todo = <<>> THEN IdleCall ELSE [c EXCEPT !.todo = todo]

\* mutex.lock(): waits until the mutex is free.
Acquire(t) ==
    /\ call[t].todo # <<>>
    /\ Head(call[t].todo).op = "acq"
    /\ lockOwner[Head(call[t].todo).lock] = 0
    /\ lockOwner' = [lockOwner EXCEPT ![Head(call[t].todo).lock] = t]
    /\ IF call[t].planned
       THEN /\ call' = [call EXCEPT ![t] = Continue(@, Tail(@.todo))]
            \* start_session: *pty = Some(pty_session)
            /\ ptySome' = IF call[t].fn = "start_session" THEN TRUE ELSE ptySome
       ELSE /\ \E plan \in Plans(call[t].fn, ptySome) :
                  call' = [call EXCEPT ![t] = [@ EXCEPT !.planned = TRUE,
                                                        !.todo = plan]]
            \* end_session: pty.take()
            /\ ptySome' = IF call[t].fn = "end_session" THEN FALSE ELSE ptySome
    /\ UNCHANGED <<appVars, dbVars, fsVars, sessVars, readVars, writeVars,
                   takeVars, envVars, nWrites, nFaults, benchVars, procVars>>

\* A guard goes out of scope.
Release(t) ==
    /\ call[t].todo # <<>>
    /\ Head(call[t].todo).op = "rel"
    /\ lockOwner' = [lockOwner EXCEPT ![Head(call[t].todo).lock] = 0]
    /\ call' = [call EXCEPT ![t] = Continue(@, Tail(@.todo))]
    /\ UNCHANGED <<appVars, dbVars, fsVars, sessVars, readVars, writeVars,
                   takeVars, envVars, nWrites, nFaults, benchVars, ptySome,
                   procVars>>

\* The command handlers running at the same time, as far as the locks go.
LockNext ==
    \/ \E t \in Threads, fn \in Commands : Invoke(t, fn)
    \/ \E t \in Threads : Acquire(t)
    \/ \E t \in Threads : Release(t)
LockSpec == Init /\ [][LockNext]_vars

\* Both directions of the sessions at work: sessions are created, the shells
\* write, reads and writes fail, input is sent.
IoNext ==
    \/ \E n \in Nonces : StartSession("ok", n, TRUE, TRUE)
    \/ \E s \in SIDs : ReaderError(s)
    \/ \E s \in SIDs : OutputPath(s)
    \/ \E d \in InputBytes : SendInput(d, TRUE)
    \/ \E s \in SIDs : WriterRecv(s)
    \/ \E s \in SIDs, ok \in BOOLEAN : WriterWrite(s, ok)
IoSpec == Init /\ [][IoNext]_vars

\* Resizing while the output streams: sessions are created, the shells write,
\* the reader reads and sends, output is taken, input is queued, and the
\* frontend resizes.
ResizeNext ==
    \/ \E n \in Nonces : StartSession("ok", n, TRUE, TRUE)
    \/ \E s \in SIDs : OutputPath(s)
    \/ ReadOutput(TRUE)
    \/ \E d \in InputBytes : SendInput(d, TRUE)
    \/ \E g \in Sizes, ok \in BOOLEAN : ResizePty(g, ok)
ResizeSpec == Init /\ [][ResizeNext]_vars

(***************************************************************************)
(* Properties.                                                             *)
(***************************************************************************)
IsPrefix(a, b) == Len(a) <= Len(b) /\ SubSeq(b, 1, Len(a)) = a

\* C1 (as stated): whenever a PtySession has been discarded, by end_session,
\* by start_session replacing it or otherwise, cleanup of its artifact
\* directory was attempted in the drop and the directory is absent afterwards.
C1_DirAbsentAfterDrop ==
    \A s \in SIDs :
        status[s] = "dropped" => cleanupCalls[s] # <<>> /\ ~dirExists[s]

\* C1 (as amended): whenever a PtySession has been discarded, cleanup was
\* called exactly once, in its drop, and the directory is absent afterwards
\* unless that call returned the error of remove_dir_all; a session that has
\* not been discarded has had no cleanup.
C1_CleanupAttemptedOnDrop ==
    \A s \in SIDs :
        /\ status[s] = "dropped" =>
              /\ Len(cleanupCalls[s]) = 1
              /\ dirExists[s] <=> cleanupCalls[s][1] = "err"
        /\ status[s] # "dropped" => cleanupCalls[s] = <<>>

\* A session whose shell had died was replaced by start_session, and its
\* directory is gone.
C1_Witness ==
    \E s \in SIDs :
        /\ status[s] = "dropped" /\ ~childAlive[s] /\ ~dirExists[s]
        /\ pty # NoSession /\ pty # s

\* C2: when PtySession::new has failed after the artifact was provisioned
\* (the .zshrc is rendered), the artifact directory has been removed.
C2_ErrorRemovesArtifact ==
    \A s \in SIDs :
        status[s] = "failed" /\ zshrc[s] # None => ~dirExists[s]

\* C3: when PtySession::new has returned an error, no reader or writer thread
\* of that session is running.
C3_NoWorkerAfterError ==
    \A s \in SIDs :
        status[s] = "failed" =>
            /\ reader[s].pc \in {"none", "done"}
            /\ writer[s].pc \in {"none", "done"}

\* C4: after a PtySession is dropped, its reader and its writer thread
\* eventually terminate, whatever the child shell does.
C4_WorkersTerminate ==
    \A s \in SIDs :
        (status[s] = "dropped") ~> (reader[s].pc = "done" /\ writer[s].pc = "done")

\* C5: write_input returns an error exactly when the writer thread has
\* terminated.  While the writer is alive a call enqueues its item and
\* returns without any write having been made; once the writer has ended
\* every call fails and enqueues nothing; the end of the writer leaves the
\* session and its output path as they are.
C5_WriteInputFailsIffWriterEnded ==
    /\ [](\A s \in SIDs :
             status[s] = "live" => (write_input_ok(s) <=> writer[s].pc # "done"))
    /\ [][\A d \in InputBytes, dbOk \in BOOLEAN :
             SendInput(d, dbOk) /\ pty # NoSession =>
                IF writer[pty].pc = "done"
                THEN /\ send_input_ret(dbOk) = "err_write"
                     /\ writeErrs'[pty] = writeErrs[pty] + 1
                     /\ UNCHANGED <<inQ, enqHist, dbEvents>>
                ELSE /\ send_input_ret(dbOk) # "err_write"
                     /\ inQ'[pty] = Append(inQ[pty], d)
                     /\ enqHist'[pty] = Append(enqHist[pty], d)
                     /\ UNCHANGED <<writer, ptyLog, writeErrs>>]_vars
    /\ [][\A s \in SIDs :
             writer[s].pc # "done" /\ writer'[s].pc = "done" =>
                UNCHANGED <<pty, status, reader, outQ, evQ>>]_vars

\* A held session whose writer ended on a write error: one item was
\* enqueued before, and a later send_input has failed.
C5_Witness ==
    \E s \in SIDs :
        /\ pty = s /\ status[s] = "live" /\ writer[s].pc = "done"
        /\ Len(enqHist[s]) = 1 /\ writeErrs[s] = 1

\* The log of the master's write half after the given items were written:
\* per item one write of the whole item and one flush.
RECURSIVE LogOf(_)
LogOf(items) ==
    IF items = <<>> THEN <<>>
    ELSE << [op |-> "write", data |-> Head(items)],
            [op |-> "flush", data |-> Head(items)] >> \o LogOf(Tail(items))

\* C6: the writer thread writes the items in the order write_input enqueued
\* them, one complete write and one flush per item, none reordered, merged,
\* duplicated or skipped; only a failed write, of the next item in order, may
\* end the log, and it ends the thread.
C6_WritesInEnqueueOrder ==
    \A s \in SIDs :
        \E k \in 0..Len(enqHist[s]) :
            LET done == SubSeq(enqHist[s], 1, k)
                hand == IF writer[s].pc = "write" THEN <<writer[s].data>> ELSE <<>>
            IN  \/ /\ writer[s].pc \in {"recv", "write"}
                   /\ ptyLog[s] = LogOf(done)
                   /\ enqHist[s] = done \o hand \o inQ[s]
                \/ /\ writer[s].pc \in {"none", "done"}
                   /\ ptyLog[s] = LogOf(done)
                \/ /\ writer[s].pc = "done"
                   /\ k < Len(enqHist[s])
                   /\ ptyLog[s] = LogOf(done) \o
                          << [op |-> "write_err", data |-> enqHist[s][k + 1]] >>

\* Two different items were enqueued and both have been written and flushed.
C6_Witness ==
    \E s \in SIDs :
        /\ Len(enqHist[s]) = 2 /\ enqHist[s][1] # enqHist[s][2]
        /\ ptyLog[s] = LogOf(enqHist[s])

\* The chunk the reader has read and not yet sent to the output queue.
ChunkInHand(s) ==
    IF reader[s].pc \in {"sendEv", "sendOut"} THEN <<reader[s].data>> ELSE <<>>
\* The events the reader has got from feed and not yet sent.
EventsInHand(s) ==
    IF reader[s].pc = "sendEv" THEN reader[s].events ELSE <<>>

\* C7: the chunks read_output has returned are a prefix of the non-empty
\* reads of the reader thread, chunk for chunk equal to what was read; for a
\* session that exists, every chunk read is returned, queued or in the
\* reader's hand, in read order; and read_output returns none exactly when
\* nothing is queued.
C7_OutputIsWhatWasRead ==
    \A s \in SIDs :
        /\ IsPrefix(outTaken[s], readsHist[s])
        /\ status[s] = "live" =>
              /\ outTaken[s] \o outQ[s] \o ChunkInHand(s) = readsHist[s]
              /\ read_output(outQ[s]) = <<>> <=> outQ[s] = <<>>

\* Two different chunks, markers among them, have been read and returned.
C7_Witness ==
    \E s \in SIDs :
        /\ status[s] = "live" /\ Len(outTaken[s]) = 2
        /\ outTaken[s][1] # outTaken[s][2] /\ evProduced[s] # <<>>

\* The events of feeding the chunks, one after the other, to a new parser.
RECURSIVE FeedChunks(_, _, _)
FeedChunks(secret, pending, chunks) ==
    IF chunks = <<>> THEN <<>>
    ELSE LET fed == Feed(secret, pending, Head(chunks))
         IN  fed.events \o FeedChunks(secret, fed.pending, Tail(chunks))
\* The events derived from the first n chunks the reader of s has read.
EventsUpTo(s, n) ==
    FeedChunks(parser[s].secret, <<>>, SubSeq(readsHist[s], 1, n))

\* C8: when chunk N is in the output queue (or was taken from it), all
\* events derived from chunks 1..N are in the event queue (or were taken
\* from it); and a read_osc_events leaves the consumer with every event
\* derived from the chunks read_output has returned so far.
C8_EventsNoLaterThanOutput ==
    /\ [](\A s \in SIDs :
             status[s] = "live" =>
                IsPrefix(EventsUpTo(s, Len(outTaken[s]) + Len(outQ[s])),
                         evTaken[s] \o evQ[s]))
    /\ [][\A failAt \in 0..MaxReads :
             ProcessOscEvents(failAt) =>
                IsPrefix(EventsUpTo(pty, Len(outTaken[pty])), evTaken'[pty])]_vars

\* A chunk that carries a marker has been returned by read_output, and its
\* events by read_osc_events.
C8_Witness ==
    \E s \in SIDs :
        /\ status[s] = "live" /\ outTaken[s] # <<>>
        /\ EventsUpTo(s, Len(outTaken[s])) # <<>>
        /\ evTaken[s] = EventsUpTo(s, Len(outTaken[s]))

\* C9: read_osc_events returns everything that is queued when it is called,
\* in queue order, and leaves the queue empty; the results of all calls, put
\* one after the other, are a prefix of the events the parser produced, and
\* for a session that exists every event produced is returned, queued or in
\* the reader's hand, in the order produced.
C9_EventsDrainedInOrder ==
    /\ [](\A s \in SIDs :
             /\ IsPrefix(evTaken[s], evProduced[s])
             /\ status[s] = "live" =>
                   evTaken[s] \o evQ[s] \o EventsInHand(s) = evProduced[s])
    /\ [][\A failAt \in 0..MaxReads :
             ProcessOscEvents(failAt) =>
                /\ evQ'[pty] = <<>>
                /\ evTaken'[pty] = evTaken[pty] \o evQ[pty]]_vars

\* Three events, two of them from one chunk, have been returned.
C9_Witness ==
    \E s \in SIDs :
        status[s] = "live" /\ Len(evTaken[s]) = 3 /\ evQ[s] = <<>>

\* C10: on Ok(0) or Err(e) the reader thread terminates, and once it has
\* terminated it stays so and nothing is added to the output queue or to the
\* event queue.
C10_NothingAfterReaderEnds ==
    [][\A s \in SIDs :
          /\ ReaderEof(s) \/ ReaderError(s) => reader'[s].pc = "done"
          /\ reader[s].pc = "done" =>
                /\ reader'[s].pc = "done"
                /\ Len(outQ'[s]) <= Len(outQ[s])
                /\ Len(evQ'[s]) <= Len(evQ[s])
                /\ readsHist'[s] = readsHist[s]
                /\ evProduced'[s] = evProduced[s]]_vars

\* The reader of a session that exists has terminated with output queued.
C10_Witness ==
    \E s \in SIDs :
        reader[s].pc = "done" /\ status[s] = "live" /\ outQ[s] # <<>>

\* What the parser has pending after the chunks were fed one after the other.
RECURSIVE PendingAfter(_, _, _)
PendingAfter(secret, pending, chunks) ==
    IF chunks = <<>> THEN pending
    ELSE PendingAfter(secret, Feed(secret, pending, Head(chunks)).pending,
                      Tail(chunks))

\* C11: the parser of a session has been fed exactly the chunks its reader
\* thread has read, each once and in read order (its events and its pending
\* marker are those of feeding the reads one after the other); a chunk is in
\* the output queue only after it was fed; and only a read of the reader
\* thread changes the parser.
C11_ParserFedEveryChunkByReader ==
    /\ [](\A s \in SIDs :
             parser[s].secret # None =>
                /\ evProduced[s] = FeedChunks(parser[s].secret, <<>>, readsHist[s])
                /\ parser[s].pending =
                       PendingAfter(parser[s].secret, <<>>, readsHist[s])
                /\ Len(outTaken[s]) + Len(outQ[s]) <= Len(readsHist[s]))
    /\ [][\A s \in SIDs :
             parser'[s] # parser[s] =>
                \/ ReaderRead(s)
                \/ status[s] = "unborn" /\ parser'[s].pending = <<>>]_vars

\* Two chunks with a marker cut in two between them were read, fed and
\* returned by read_output.
C11_Witness ==
    \E s \in SIDs :
        /\ Len(readsHist[s]) = 2 /\ outTaken[s] = readsHist[s]
        /\ Len(evProduced[s]) = 3

\* C12: for every PtySession (one that exists or has existed) the secret of
\* its parser, the secret in its rendered start-up file and its nonce field
\* are one value, and from the creation on none of the three changes.
C12_OneSecretForLife ==
    /\ [](\A s \in SIDs :
             status[s] \in {"live", "dropped"} =>
                /\ nonce[s] \in Nonces
                /\ parser[s].secret = nonce[s]
                /\ zshrc[s] = nonce[s])
    /\ [][\A s \in SIDs :
             status[s] # "unborn" =>
                /\ nonce'[s] = nonce[s]
                /\ parser'[s].secret = parser[s].secret
                /\ zshrc'[s] = zshrc[s]]_vars

\* Two sessions with different secrets: one was dropped, the other exists and
\* its parser has been fed.
C12_Witness ==
    \E s, x \in SIDs :
        /\ status[s] = "dropped" /\ status[x] = "live"
        /\ nonce[s] # nonce[x] /\ readsHist[x] # <<>>

\* C13: an I/O error ends only the thread that hit it.  The reader thread
\* ends only at its own read (end-of-stream or error) or at a send on a
\* closed output channel, and its end leaves the writer and the input queue
\* as they are; the writer thread ends only at its own write or at the close
\* of the input queue, and its end leaves the reader, the parser and the
\* output and event queues as they are.  With the reader ended and the
\* writer not, write_input still succeeds.
C13_ErrorEndsOnlyItsThread ==
    /\ [][\A s \in SIDs :
             /\ reader[s].pc # "done" /\ reader'[s].pc = "done" =>
                   /\ reader[s].pc = "read" \/ ~ReceiverAlive(s)
                   /\ UNCHANGED <<writer, inQ, inRx, ptyLog, enqHist>>
             /\ writer[s].pc # "done" /\ writer'[s].pc = "done" =>
                   /\ writer[s].pc = "write" \/ status[s] # "live"
                   /\ UNCHANGED <<reader, parser, outQ, evQ, readsHist>>]_vars
    /\ [](\A s \in SIDs :
             status[s] = "live" /\ reader[s].pc = "done" /\ writer[s].pc # "done"
                => write_input_ok(s))

\* The reader of a session that exists has ended on a read error while its
\* shell runs; two items of input have been written and flushed and
\* write_input still succeeds.
C13_Witness ==
    \E s \in SIDs :
        /\ status[s] = "live" /\ reader[s].pc = "done" /\ childAlive[s]
        /\ Len(ptyLog[s]) = 4 /\ write_input_ok(s)

\* C14: a step that changes the geometry of a session that exists leaves its
\* output, event and input queues, its threads and its parser as they are; a
\* resize that succeeds sets the geometry asked for, of the held session only;
\* and with resizes between the reads and the sends every chunk read is
\* returned, queued or in the reader's hand, once and in read order.
C14_ResizeChangesOnlyGeometry ==
    /\ [][\A s \in SIDs :
             status[s] = "live" /\ size'[s] # size[s] =>
                /\ outQ'[s] = outQ[s] /\ evQ'[s] = evQ[s] /\ inQ'[s] = inQ[s]
                /\ UNCHANGED <<reader, writer, parser, status, pty, ptyBuf,
                               readsHist, outTaken, enqHist>>]_vars
    /\ [][\A g \in Sizes, ok \in BOOLEAN :
             ResizePty(g, ok) /\ pty # NoSession =>
                /\ ok => size'[pty].cols = g[1] /\ size'[pty].rows = g[2]
                /\ ~ok => size'[pty] = size[pty]
                /\ \A s \in SIDs \ {pty} : size'[s] = size[s]]_vars
    /\ [](\A s \in SIDs :
             status[s] = "live" =>
                outTaken[s] \o outQ[s] \o ChunkInHand(s) = readsHist[s])

\* A session was resized while one chunk was queued and the next was in the
\* reader's hand; input is queued as well.
C14_Witness ==
    \E s \in SIDs :
        /\ status[s] = "live" /\ size[s] = [rows |-> 40, cols |-> 120]
        /\ Len(outQ[s]) = 1 /\ reader[s].pc = "sendOut" /\ inQ[s] # <<>>

\* C15: the artifact directory is a function of the session id and different
\* ids give different directories; so the directory of a session changes only
\* when that session is created or dropped, and its start-up file only when
\* that session is created: nothing done for another session touches them.
C15_DirectoryPerSession ==
    /\ [](\A s, x \in SIDs : s # x => zdotdir_path(s) # zdotdir_path(x))
    /\ [][\A x \in SIDs :
             /\ dirExists'[x] # dirExists[x] =>
                   status[x] = "unborn" \/ (pty = x /\ pty' # x)
             /\ zshrc'[x] # zshrc[x] => status[x] = "unborn"]_vars
    /\ [](\A s \in SIDs :
             status[s] = "live" /\ cleanupCalls[s] = <<>> =>
                dirExists[s] /\ zshrc[s] = nonce[s])

\* The second session was created while the first was held, and the first,
\* replaced, was cleaned up: the directory of the first is gone, that of the
\* second is there with the second's secret in its start-up file.
C15_Witness ==
    \E s, x \in SIDs :
        /\ s # x /\ status[s] = "dropped" /\ ~dirExists[s]
        /\ cleanupCalls[s] = <<"ok">> /\ nonce[s] # nonce[x]
        /\ pty = x /\ dirExists[x] /\ zshrc[x] = nonce[x]

Last(q) == q[Len(q)]

\* C16 (as stated): cleanup on an absent directory returns Ok and changes
\* nothing, and a call of cleanup that follows another one changes nothing:
\* twice leaves what once left.
C16_CleanupTwiceAsOnce ==
    [][\A s \in SIDs, removeOk \in BOOLEAN :
          CleanupCall(s, removeOk) =>
             /\ ~dirExists[s] =>
                   Last(cleanupCalls'[s]) = "ok" /\ dirExists' = dirExists
             /\ cleanupCalls[s] # <<>> => dirExists' = dirExists]_vars

\* C16 (amended): cleanup on an absent directory returns Ok and changes
\* nothing; after a call that returned Ok the directory is absent, so a call
\* that follows it returns Ok and changes nothing.  (A call that follows a
\* failed one tries the removal again.)
C16_CleanupIdempotentAfterOk ==
    /\ [][\A s \in SIDs, removeOk \in BOOLEAN :
             CleanupCall(s, removeOk) =>
                /\ ~dirExists[s] =>
                      Last(cleanupCalls'[s]) = "ok" /\ dirExists' = dirExists
                /\ cleanupCalls[s] # <<>> /\ Last(cleanupCalls[s]) = "ok" =>
                      Last(cleanupCalls'[s]) = "ok" /\ dirExists' = dirExists]_vars
    /\ [](\A s \in SIDs :
             cleanupCalls[s] # <<>> /\ Last(cleanupCalls[s]) = "ok" => ~dirExists[s])

\* A removal that failed, one that succeeded, and a third call on the absent
\* directory.
C16_Witness ==
    \E s \in SIDs : cleanupCalls[s] = <<"err", "ok", "ok">> /\ ~dirExists[s]

\* The stream holds the token.
Holds(stream, token) == \E i \in 1..Len(stream) : stream[i] = token

\* C17: fed a stream that does not hold the parser's secret, markers with
\* another secret included, the parser returns no event, whatever the marker
\* kinds and payloads and however the stream is cut; feed is total, so there is
\* no error either.  An event returned means the secret was fed.
C17_NoEventWithoutSecret ==
    /\ ~Holds(SubSeq(benchStream, 1, benchFed), benchParser.secret)
          => benchEvents = <<>>
    /\ \A k \in 1..(Len(benchStream) - benchFed) :
          feed(benchParser, SubSeq(benchStream, benchFed + 1, benchFed + k)).events
              \in Seq([kind : {"CommandText", "CommandEnd"},
                       text : Seq({"l"}), code : Int])

\* Two well-formed markers with the other secret, one of each kind, were fed
\* to the end and no event came.
C17_Witness ==
    /\ benchParser.secret = "n1"
    /\ benchStream = <<LEAD_IN, "CMD_START", SEP, "n2", SEP, "l", LEAD_OUT,
                       LEAD_IN, "CMD_END", SEP, "n2", SEP, "1", "0", LEAD_OUT>>
    /\ benchFed = Len(benchStream)
    /\ benchEvents = <<>>

\* C18: however the bytes fed so far were cut into chunks, the events
\* returned so far, and the marker the parser has pending, are those of
\* feeding the same bytes in one chunk to a new parser; so at the end of the
\* stream every chunking has given the events of the whole stream.
C18_ChunkingInvariance ==
    LET whole == Feed(benchParser.secret, <<>>, SubSeq(benchStream, 1, benchFed))
    IN  /\ benchEvents = whole.events
        /\ benchParser.pending = whole.pending

\* Two markers with the parser's secret were fed to the end one byte at a
\* time, and the two events came.
C18_Witness ==
    /\ benchFed = Len(benchStream) /\ benchCalls = Len(benchStream)
    /\ benchEvents = << CommandText(<<"l">>), CommandEnd(10) >>

\* The markers of a stream, stated on the stream: from a lead-in to the next
\* lead-out with no lead-in between them, at most MaxSpan bytes before the
\* lead-out, KIND ; SECRET ; PAYLOAD between them with the given secret.
IsMarker(secret, stream, i, j) ==
    /\ i + 5 <= j /\ j - i <= MaxSpan
    /\ stream[i] = LEAD_IN /\ stream[j] = LEAD_OUT
    /\ \A m \in (i + 1)..(j - 1) : stream[m] \notin {LEAD_IN, LEAD_OUT}
    /\ stream[i + 1] \in Kinds /\ stream[i + 2] = SEP
    /\ stream[i + 3] = secret /\ stream[i + 4] = SEP
\* The ends of the markers among the first n bytes.
MarkerEnds(secret, stream, n) ==
    { j \in 1..n : \E i \in 1..j : IsMarker(secret, stream, i, j) }

\* C19: the parser never has more than MaxSpan bytes pending, whatever it is
\* fed, a marker that never ends included; and it returns one event for each
\* marker with its secret that has been fed, those that follow a marker given
\* up at the bound or cut short included.
C19_BoundedAndResynchronized ==
    /\ Len(benchParser.pending) <= MaxSpan
    /\ Len(benchEvents) =
          Cardinality(MarkerEnds(benchParser.secret, benchStream, benchFed))

\* A lead-in with more than MaxSpan bytes and no lead-out, then a marker with
\* the parser's secret: fed to the end, its event came.
C19_Witness ==
    /\ benchParser.secret = "n1"
    /\ benchStream = <<LEAD_IN>> \o Junk \o
                     <<LEAD_IN, "CMD_START", SEP, "n1", SEP, "l", LEAD_OUT>>
    /\ benchFed = Len(benchStream)
    /\ benchEvents = << CommandText(<<"l">>) >>

\* The handler thread waits in lock() for a mutex another thread holds.
WaitsFor(t, x) ==
    /\ call[t].todo # <<>>
    /\ Head(call[t].todo).op = "acq"
    /\ lockOwner[Head(call[t].todo).lock] = x
\* A set of threads each of which waits for a mutex held by one of the set.
Deadlocked ==
    \E D \in SUBSET Threads :
        D # {} /\ \A t \in D : \E x \in D : x # t /\ WaitsFor(t, x)

\* C20: no interleaving of the command handlers reaches a state in which
\* handlers wait for one another's mutexes for ever: no mutex is requested
\* by a handler holding another one while a second handler holds the first
\* and requests the second.
C20_NoLockCycle == ~Deadlocked

\* The command records that have an end.
Ended(cmds) == { i \in 1..Len(cmds) : cmds[i].ended }
\* The CommandEnd events among the given ones.
EndEvents(events) == { i \in 1..Len(events) : events[i].kind = "CommandEnd" }

\* C21: end_command gives an end and the exit code to the most recently
\* started command of the session that has none, and to no other record; it
\* changes nothing when the session has no such command.  A step of the host
\* never modifies a record that is ended or that belongs to another session
\* than the held one, so a recorded exit code never changes, and one call of
\* process_osc_events closes at most one record per CommandEnd it handles.
C21_EndCommandClosesAtMostOne ==
    /\ [](\A s \in SIDs, code \in {0, 1} :
             LET after == end_command(dbCommands, s, code)
             IN  /\ Len(after) = Len(dbCommands)
                 /\ Cardinality(Ended(after)) <= Cardinality(Ended(dbCommands)) + 1
                 /\ \A i \in 1..Len(dbCommands) :
                       IF /\ dbCommands[i].session = s
                          /\ ~dbCommands[i].ended
                          /\ \A j \in (i + 1)..Len(dbCommands) :
                                dbCommands[j].session # s \/ dbCommands[j].ended
                       THEN after[i] = [session |-> s,
                                        input |-> dbCommands[i].input,
                                        ended |-> TRUE, exit_code |-> code]
                       ELSE after[i] = dbCommands[i])
    /\ [][/\ Len(dbCommands') >= Len(dbCommands)
          /\ \A i \in 1..Len(dbCommands) :
                /\ dbCommands'[i].session = dbCommands[i].session
                /\ dbCommands'[i].input = dbCommands[i].input
                /\ dbCommands[i].ended \/ dbCommands[i].session # pty =>
                      dbCommands'[i] = dbCommands[i]]_vars
    /\ [][\A failAt \in 0..MaxBatch :
             ProcessOscEvents(failAt) =>
                Cardinality(Ended(dbCommands')) <=
                   Cardinality(Ended(dbCommands)) + Cardinality(EndEvents(evQ[pty]))]_vars

\* Two commands of one session were started and then ended one after the
\* other: the later one got the first exit code, the earlier one the second,
\* and the first exit code is still there.
C21_Witness ==
    /\ Len(dbCommands) = 2
    /\ dbCommands[1].session = dbCommands[2].session
    /\ dbCommands[1].ended /\ dbCommands[1].exit_code = 0
    /\ dbCommands[2].ended /\ dbCommands[2].exit_code = 1

\* A persistence call without its result: the event and the session id.
Call(a) == [sid |-> a.sid, event |-> a.event]

C23_EndSessionAlwaysDrops ==
    /\ [][\A dbOk, removeOk \in BOOLEAN :
             EndSession(dbOk, removeOk) =>
                /\ pty' = NoSession
                /\ status[pty] = "live" /\ status'[pty] = "dropped"
                /\ Len(cleanupCalls'[pty]) = Len(cleanupCalls[pty]) + 1
                /\ dbSessions'[pty] = (IF dbOk THEN "ended" ELSE "open")
                /\ \A s \in SIDs \ {pty} :
                      /\ status'[s] = status[s]
                      /\ cleanupCalls'[s] = cleanupCalls[s]
                      /\ dbSessions'[s] = dbSessions[s]]_vars
    /\ [][pty = NoSession =>
             /\ \A dbOk, removeOk \in BOOLEAN : ~EndSession(dbOk, removeOk)
             /\ EndSessionIdle => UNCHANGED vars]_vars
    /\ [](\A s \in SIDs : status[s] = "dropped" => pty # s)

\* The only session there has been was ended by an end_session whose
\* db.end_session failed: it is dropped, cleanup was called, AppState holds
\* nothing, and the database still has the session open.
C23_Witness ==
    \E s \in SIDs :
        /\ status[s] = "dropped" /\ dbSessions[s] = "open" /\ pty = NoSession
        /\ Len(cleanupCalls[s]) = 1
        /\ \A x \in SIDs \ {s} : status[x] = "unborn"

\* The session s is after the step as it was before it.
SessionUntouched(s) ==
    /\ status'[s] = status[s] /\ nonce'[s] = nonce[s] /\ size'[s] = size[s]
    /\ reader'[s] = reader[s] /\ writer'[s] = writer[s] /\ parser'[s] = parser[s]
    /\ outQ'[s] = outQ[s] /\ evQ'[s] = evQ[s] /\ inQ'[s] = inQ[s]
    /\ inRx'[s] = inRx[s] /\ childAlive'[s] = childAlive[s]
    /\ dirExists'[s] = dirExists[s] /\ zshrc'[s] = zshrc[s]
    /\ cleanupCalls'[s] = cleanupCalls[s]

\* AppState holds the one session that exists, if any.
AtMostOneHeld ==
    /\ \A s \in SIDs : status[s] = "live" <=> pty = s
    /\ Cardinality({ s \in SIDs : status[s] = "live" }) <= 1

\* What the two statements of C24 share: a start_session that succeeds
\* installs the new session and drops the one held before, closing its
\* queues; one whose create_session or PtySession::new fails leaves AppState
\* and the session held before as they were.
StartSessionReplaces(o, n, dbOk, removeOk) ==
    StartSession(o, n, dbOk, removeOk) =>
        IF dbOk /\ o = "ok"
        THEN /\ pty' = NextSid /\ status'[NextSid] = "live"
             /\ pty # NoSession =>
                   /\ status'[pty] = "dropped"
                   /\ outQ'[pty] = <<>> /\ evQ'[pty] = <<>>
                   /\ Len(cleanupCalls'[pty]) = Len(cleanupCalls[pty]) + 1
        ELSE /\ pty' = pty
             /\ pty # NoSession => SessionUntouched(pty)

\* C24 (as stated): AppState holds at most one session; a successful
\* start_session while a session is held drops it, closes its queues and
\* removes its artifact directory, and installs the new one; a start_session
\* whose PtySession::new fails leaves the held session in place, unchanged.
C24_ReplacedSessionRemoved ==
    /\ []AtMostOneHeld
    /\ [][\A o \in NewOutcomes, n \in Nonces, dbOk, removeOk \in BOOLEAN :
             /\ StartSessionReplaces(o, n, dbOk, removeOk)
             /\ StartSession(o, n, dbOk, removeOk) /\ dbOk /\ o = "ok"
                /\ pty # NoSession => ~dirExists'[pty]]_vars

\* C24 (as amended): the same, but the artifact directory of the replaced
\* session is absent afterwards unless the remove_dir_all of its cleanup
\* failed, in which case it is still there.
C24_ReplacedSessionDropped ==
    /\ []AtMostOneHeld
    /\ [][\A o \in NewOutcomes, n \in Nonces, dbOk, removeOk \in BOOLEAN :
             /\ StartSessionReplaces(o, n, dbOk, removeOk)
             /\ StartSession(o, n, dbOk, removeOk) /\ dbOk /\ o = "ok"
                /\ pty # NoSession =>
                   (dirExists'[pty] <=> dirExists[pty] /\ ~removeOk)]_vars

\* A held session was replaced by a successful start_session: it is dropped
\* with its directory removed, never ended in the database, and the new
\* session is the one held.
C24_Witness ==
    \E s \in SIDs :
        /\ status[s] = "dropped" /\ dbSessions[s] = "open" /\ nFaults = 0
        /\ cleanupCalls[s] = <<"ok">> /\ ~dirExists[s]
        /\ pty # NoSession /\ pty # s /\ status[pty] = "live"

\* A write of the writer thread of s has failed.
WriteFailed(s) == \E i \in 1..Len(ptyLog[s]) : ptyLog[s][i].op = "write_err"

\* C25: what write_input accepted for a session is not discarded when the
\* session is dropped.  After the drop, as long as no write has failed, the
\* items written, in hand and queued are the items accepted, in order; and
\* once the writer thread has terminated without a failed write, every
\* accepted item has been written and flushed, in the order accepted.
C25_AcceptedInputWrittenBeforeExit ==
    \A s \in SIDs :
        status[s] = "dropped" /\ ~WriteFailed(s) =>
            /\ \E k \in 0..Len(enqHist[s]) :
                  /\ ptyLog[s] = LogOf(SubSeq(enqHist[s], 1, k))
                  /\ writer[s].pc # "done" =>
                        enqHist[s] = SubSeq(enqHist[s], 1, k)
                            \o (IF writer[s].pc = "write"
                                THEN <<writer[s].data>> ELSE <<>>)
                            \o inQ[s]
            /\ writer[s].pc = "done" => ptyLog[s] = LogOf(enqHist[s])

\* A session that accepted two items has been dropped; its writer thread
\* wrote both, no write failed, and it terminated on the closed queue.
C25_Witness ==
    \E s \in SIDs :
        /\ status[s] = "dropped" /\ writer[s].pc = "done"
        /\ Len(enqHist[s]) = 2 /\ ptyLog[s] = LogOf(enqHist[s])
        /\ nFaults = 0

\* C26: the end of the reader thread loses nothing it has enqueued.  For a
\* session that exists, the step that ends the thread leaves both queues as
\* they are, and from then on what was returned plus what is queued stays
\* the same, chunk for chunk and event for event, and is everything the
\* thread read and produced; read_output returns the oldest queued chunk and
\* returns none exactly when nothing is queued, and an empty output queue
\* stays empty.
C26_NothingLostAtReaderEnd ==
    /\ [](\A s \in SIDs :
             status[s] = "live" /\ reader[s].pc = "done" =>
                /\ outTaken[s] \o outQ[s] = readsHist[s]
                /\ evTaken[s] \o evQ[s] = evProduced[s]
                /\ read_output(outQ[s]) = <<>> <=> outQ[s] = <<>>)
    /\ [][\A s \in SIDs :
             status'[s] = "live" /\ reader'[s].pc = "done" =>
                /\ outTaken'[s] \o outQ'[s] = outTaken[s] \o outQ[s]
                /\ evTaken'[s] \o evQ'[s] = evTaken[s] \o evQ[s]
                /\ reader[s].pc = "done" /\ outQ[s] = <<>> => outQ'[s] = <<>>
                /\ Len(outTaken'[s]) > Len(outTaken[s]) =>
                      outTaken'[s] = Append(outTaken[s], Head(outQ[s]))]_vars

\* The reader thread of a held session has terminated after reading two
\* chunks with markers; read_output has returned both chunks and
\* read_osc_events every event, and both queues are drained.
C26_Witness ==
    \E s \in SIDs :
        /\ pty = s /\ status[s] = "live" /\ reader[s].pc = "done"
        /\ Len(readsHist[s]) = 2 /\ outTaken[s] = readsHist[s]
        /\ evProduced[s] # <<>> /\ evTaken[s] = evProduced[s]
        /\ outQ[s] = <<>> /\ evQ[s] = <<>>

\* a is b with some of its elements left out.
RECURSIVE IsSubseq(_, _)
IsSubseq(a, b) ==
    IF a = <<>> THEN TRUE
    ELSE IF b = <<>> THEN FALSE
    ELSE IF Head(a) = Head(b) THEN IsSubseq(Tail(a), Tail(b))
    ELSE IsSubseq(a, Tail(b))
\* The items as add_event gets them from send_input.
Lossy(items) == [i \in 1..Len(items) |-> from_utf8_lossy(items[i])]

\* C27: the user_in events of a session are, in order, the logged form of
\* items write_input enqueued for it, at most one event per item.  A
\* send_input with no session held returns Ok and enqueues and logs nothing;
\* one whose write_input fails returns that error and logs nothing; one that
\* enqueues its item logs it once, unless add_event fails.
C27_InputLoggedOnlyIfEnqueued ==
    /\ [](\A s \in SIDs : IsSubseq(dbEvents[s].user_in, Lossy(enqHist[s])))
    /\ [][\A d \in InputBytes \cup InvalidBytes, dbOk \in BOOLEAN :
             SendInput(d, dbOk) =>
                IF pty = NoSession
                THEN /\ send_input_ret(dbOk) = "ok"
                     /\ UNCHANGED <<dbEvents, inQ, enqHist>>
                ELSE IF ~write_input_ok(pty)
                THEN /\ send_input_ret(dbOk) = "err_write"
                     /\ UNCHANGED <<dbEvents, inQ, enqHist>>
                ELSE /\ enqHist'[pty] = Append(enqHist[pty], d)
                     /\ dbEvents'[pty].user_in =
                           IF dbOk
                           THEN Append(dbEvents[pty].user_in, from_utf8_lossy(d))
                           ELSE dbEvents[pty].user_in
                     /\ send_input_ret(dbOk) = (IF dbOk THEN "ok" ELSE "err_log")]_vars

\* A session has one user_in event, for an input that is not UTF-8, which
\* was enqueued; a later send_input failed in write_input, the writer thread
\* having ended, and left no event.
C27_Witness ==
    \E s \in SIDs :
        /\ pty = s /\ writeErrs[s] = 1 /\ Len(enqHist[s]) = 1
        /\ enqHist[s][1] \in InvalidBytes
        /\ dbEvents[s].user_in = << "U+FFFD" >>

=============================================================================
